---------------------------- MODULE Spec2Model ----------------------------
(***************************************************************************)
(* Brand extraction and profile assembly of tri-tender-brand-mcp.          *)
(*                                                                         *)
(* Python strings are sequences of one-character strings, so that upper    *)
(* casing, lexicographic sorting, suffix tests and the regular expression  *)
(* of the hex-colour scanner are computed as the code computes them.       *)
(* None is the distinguished value None below.                             *)
(***************************************************************************)
EXTENDS Integers, Sequences, FiniteSets, TLC

(***************************** bounds ***************************************)
\* longest file_paths list handed to extract_brand_from_files
MaxPaths == 2
\* number of renderer calls made on one profile object
MaxRenders == 2
\* largest number of bars in a chart series
MaxBars == 2

\* most pieces a font identifier is put together from
MaxPieces == 4

\* most colours of a resized image, most pixels of one colour, largest top_n
MaxColors == 3
MaxCount == 2
MaxTopN == 3

\* longest text handed to extract_hex_colors_from_text
MaxTextLen == 9

(***************************** strings **************************************)
None == <<"None">>

Range(s) == {s[k] : k \in DOMAIN s}

Min(a, b) == IF a < b THEN a ELSE b

Take(s, n) == SubSeq(s, 1, Min(n, Len(s)))

Drop(s, n) == SubSeq(s, n + 1, Len(s))

Truthy(v) == v # None /\ v # <<>>

Digits == <<"0","1","2","3","4","5","6","7","8","9">>

Lowers == <<"a","b","c","d","e","f","g","h","i","j","k","l","m",
            "n","o","p","q","r","s","t","u","v","w","x","y","z">>

Uppers == <<"A","B","C","D","E","F","G","H","I","J","K","L","M",
            "N","O","P","Q","R","S","T","U","V","W","X","Y","Z">>

\* the characters of a colour token in ascending code-point order
CodeOrder == <<"#">> \o Digits \o SubSeq(Uppers, 1, 6)

Ord(c) == CHOOSE k \in DOMAIN CodeOrder : CodeOrder[k] = c

UpperChar(c) ==
    IF c \in Range(Lowers)
      THEN Uppers[CHOOSE k \in DOMAIN Lowers : Lowers[k] = c]
      ELSE c

LowerChar(c) ==
    IF c \in Range(Uppers)
      THEN Lowers[CHOOSE k \in DOMAIN Uppers : Uppers[k] = c]
      ELSE c

Upper(s) == [k \in DOMAIN s |-> UpperChar(s[k])]

Lower(s) == [k \in DOMAIN s |-> LowerChar(s[k])]

EndsWith(s, suffix) ==
    /\ Len(suffix) <= Len(s)
    /\ SubSeq(s, Len(s) - Len(suffix) + 1, Len(s)) = suffix

\* Python's str comparison: code points, a proper prefix sorts first
StrLess(a, b) ==
    \E k \in 1..(Min(Len(a), Len(b)) + 1) :
        /\ \A j \in 1..(k - 1) : a[j] = b[j]
        /\ \/ k > Len(a) /\ k <= Len(b)
           \/ k <= Len(a) /\ k <= Len(b) /\ Ord(a[k]) < Ord(b[k])

RECURSIVE sorted(_)
sorted(S) ==
    IF S = {} THEN <<>>
    ELSE LET m == CHOOSE x \in S : \A y \in S : y = x \/ StrLess(x, y)
         IN <<m>> \o sorted(S \ {m})

RECURSIVE DedupFrom(_, _)
DedupFrom(s, seen) ==
    IF s = <<>> THEN <<>>
    ELSE IF Head(s) \in seen THEN DedupFrom(Tail(s), seen)
    ELSE <<Head(s)>> \o DedupFrom(Tail(s), seen \cup {Head(s)})

\* no deduplication at all
Dedup_KeepAll(s) == s

\* "deduplicate while preserving order"
Dedup(s) == DedupFrom(s, {})

\* a stable sort, descending by component key of the entries
\* (list.sort(key=..., reverse=True), Counter.most_common)
RECURSIVE InsertByKey(_, _, _)
InsertByKey(e, s, key) ==
    IF s = <<>> THEN <<e>>
    ELSE IF e[key] > Head(s)[key] THEN <<e>> \o s
    ELSE <<Head(s)>> \o InsertByKey(e, Tail(s), key)

RECURSIVE SortDescBy(_, _)
SortDescBy(s, key) ==
    IF s = <<>> THEN <<>>
    ELSE InsertByKey(s[Len(s)], SortDescBy(SubSeq(s, 1, Len(s) - 1), key), key)

(************************** utils.py ****************************************)
HexDigitChars == Range(Digits) \cup Range(SubSeq(Lowers, 1, 6))
                               \cup Range(SubSeq(Uppers, 1, 6))

WordChars == Range(Digits) \cup Range(Lowers) \cup Range(Uppers) \cup {"_"}

\* text[i+1..i+n] are n hex digits
HexRun(text, i, n) ==
    /\ i + n <= Len(text)
    /\ \A j \in 1..n : text[i + j] \in HexDigitChars

\* \b after position k, whose character is a word character
BoundaryAfter(text, k) == k = Len(text) \/ text[k + 1] \notin WordChars

\* the pattern without its \b
MatchLenAt_NoBoundary(text, i) ==
    IF text[i] # "#" THEN 0
    ELSE IF HexRun(text, i, 6) THEN 7
    ELSE IF HexRun(text, i, 3) THEN 4
    ELSE 0

\* length of the match of  #(?:[0-9a-fA-F]{3}){1,2}\b  at position i, 0 if none
MatchLenAt(text, i) ==
    IF text[i] # "#" THEN 0
    ELSE IF HexRun(text, i, 6) /\ BoundaryAfter(text, i + 6) THEN 7
    ELSE IF HexRun(text, i, 3) /\ BoundaryAfter(text, i + 3) THEN 4
    ELSE 0

\* HEX_COLOR_PATTERN.findall(text): leftmost, non-overlapping matches from i
RECURSIVE FindAllFrom(_, _)
FindAllFrom(text, i) ==
    IF i > Len(text) THEN <<>>
    ELSE LET m == MatchLenAt(text, i)
         IN IF m = 0 THEN FindAllFrom(text, i + 1)
            ELSE <<SubSeq(text, i, i + m - 1)>> \o FindAllFrom(text, i + m)

extract_hex_colors_from_text(text) ==
    sorted({Upper(m) : m \in Range(FindAllFrom(IF text = None THEN <<>> ELSE text, 1))})

HexChars == Digits \o SubSeq(Uppers, 1, 6)

Hex2(v) == <<HexChars[(v \div 16) + 1], HexChars[(v % 16) + 1]>>

rgb_to_hex(rgb) == <<"#">> \o Hex2(rgb[1]) \o Hex2(rgb[2]) \o Hex2(rgb[3])

\* [a-zA-Z0-9._-]
SafeChars == WordChars \cup {".", "-"}

\* the whitespace str.strip() removes, of the characters used here
Whitespace == {" "}

RECURSIVE LStrip(_)
LStrip(s) == IF s # <<>> /\ Head(s) \in Whitespace THEN LStrip(Tail(s)) ELSE s

RECURSIVE RStrip(_)
RStrip(s) ==
    IF s # <<>> /\ s[Len(s)] \in Whitespace
      THEN RStrip(SubSeq(s, 1, Len(s) - 1)) ELSE s

Strip(s) == RStrip(LStrip(s))

\* re.sub(r"[^a-zA-Z0-9._-]+", "_", s): each run of other characters -> "_"
RECURSIVE SubUnsafe(_, _)
SubUnsafe(s, inRun) ==
    IF s = <<>> THEN <<>>
    ELSE IF Head(s) \in SafeChars THEN <<Head(s)>> \o SubUnsafe(Tail(s), FALSE)
    ELSE IF inRun THEN SubUnsafe(Tail(s), TRUE)
    ELSE <<"_">> \o SubUnsafe(Tail(s), TRUE)

safe_filename(name) == SubUnsafe(Strip(name), FALSE)

\* the top_n requested by extract_brand_from_files
TopN == 5

\* image_dominant_colors without its colors.sort
image_dominant_colors_Unsorted(files, image_path, top_n) ==
    IF image_path \notin DOMAIN files
      THEN [raised |-> FALSE, colors |-> <<>>]
    ELSE IF files[image_path].kind # "raster"
      THEN [raised |-> TRUE, colors |-> <<>>]
    ELSE LET colors == files[image_path].hist
             top == Take(colors, top_n)
             hex_colors == [k \in DOMAIN top |-> rgb_to_hex(top[k][2])]
         IN [raised |-> FALSE, colors |-> Dedup(hex_colors)]

\* image_dominant_colors(image_path, top_n) on the filesystem files; hist is
\* what img.getcolors() returns for the resized image, a list of (count, rgb).
\* A file that exists but is no raster image makes Image.open raise.
image_dominant_colors(files, image_path, top_n) ==
    IF image_path \notin DOMAIN files
      THEN [raised |-> FALSE, colors |-> <<>>]
    ELSE IF files[image_path].kind # "raster"
      THEN [raised |-> TRUE, colors |-> <<>>]
    ELSE LET colors == files[image_path].hist
             top == Take(SortDescBy(colors, 1), top_n)
             hex_colors == [k \in DOMAIN top |-> rgb_to_hex(top[k][2])]
         IN [raised |-> FALSE, colors |-> Dedup(hex_colors)]

(************************ brand_profile.py **********************************)
DefaultStack == <<"I","n","t","e","r",","," ","s","y","s","t","e","m","-","u","i",","," ","-","a","p","p","l","e","-","s","y","s","t","e","m",","," ","B","l","i","n","k","M","a","c","S","y","s","t","e","m","F","o","n","t",","," ","'","S","e","g","o","e"," ","U","I","'",","," ","s","a","n","s","-","s","e","r","i","f">>

NeutralDefault == <<"#","1","1","1","8","2","7">>

BackgroundDefault == <<"#","F","9","F","A","F","B">>

BrandProfile ==
    [name |-> None, logo_path |-> None,
     primary_color |-> None, secondary_color |-> None, accent_color |-> None,
     neutral_color |-> NeutralDefault, background_color |-> BackgroundDefault,
     font_heading |-> DefaultStack, font_body |-> DefaultStack,
     detected_colors |-> <<>>, detected_fonts |-> <<>>,
     hex_colors_in_text |-> <<>>, chart_palette |-> <<>>]

fallback == << <<"#","2","5","6","3","E","B">>, <<"#","0","E","A","5","E","9">>, <<"#","2","2","C","5","5","E">>,
               <<"#","F","9","7","3","1","6">>, <<"#","E","1","1","D","4","8">>, <<"#","A","8","5","5","F","7">> >>

\* the cap of chart_palette
PaletteCap == 8

\* base_colors without the neutral colour
base_colors_NoNeutral(p) ==
    SelectSeq(<<p.primary_color, p.secondary_color, p.accent_color>>, Truthy)

base_colors(p) ==
    SelectSeq(<<p.primary_color, p.secondary_color, p.accent_color, p.neutral_color>>,
              Truthy)

\* ensure_palette without its early return
ensure_palette_NoGuard(p) ==
    [p EXCEPT !.chart_palette =
        Take(Dedup(SelectSeq(base_colors(p) \o fallback, Truthy)), PaletteCap)]

ensure_palette(p) ==
    IF p.chart_palette # <<>> THEN p
    ELSE [p EXCEPT !.chart_palette =
              Take(Dedup(SelectSeq(base_colors(p) \o fallback, Truthy)), PaletteCap)]

\* cls(**data): the fields data names replace the defaults
from_dict(data) ==
    [f \in DOMAIN BrandProfile |->
        IF f \in DOMAIN data THEN data[f] ELSE BrandProfile[f]]

(************************* extractors.py ************************************)
FallbackTail == <<"'",","," ","s","y","s","t","e","m","-","u","i",","," ","-","a","p","p","l","e","-","s","y","s","t","e","m",","," ","B","l","i","n","k","M","a","c","S","y","s","t","e","m","F","o","n","t",","," ","'","S","e","g","o","e"," ","U","I","'",","," ","s","a","n","s","-","s","e","r","i","f">>

\* s.replace(pat, ""): every non-overlapping occurrence, left to right
RECURSIVE Remove(_, _)
Remove(s, pat) ==
    IF Len(s) < Len(pat) THEN s
    ELSE IF SubSeq(s, 1, Len(pat)) = pat THEN Remove(Drop(s, Len(pat)), pat)
    ELSE <<Head(s)>> \o Remove(Tail(s), pat)

\* the split made at the last "+"
AfterFirstPlus_Last(s) ==
    IF "+" \in Range(s)
      THEN Drop(s, CHOOSE k \in DOMAIN s :
                       s[k] = "+" /\ \A j \in (k + 1)..Len(s) : s[j] # "+")
      ELSE s

\* font_name.split("+", 1)[-1]
AfterFirstPlus(s) ==
    IF "+" \in Range(s)
      THEN Drop(s, CHOOSE k \in DOMAIN s :
                       s[k] = "+" /\ \A j \in 1..(k - 1) : s[j] # "+")
      ELSE s

_font_family_from_pdf_name(font_name) ==
    IF ~Truthy(font_name) THEN DefaultStack
    ELSE LET stripped == Strip(Remove(Remove(AfterFirstPlus(font_name),
                                             <<"B","o","l","d">>), <<"R","e","g","u","l","a","r">>))
             fam == IF stripped = <<>> THEN <<"I","n","t","e","r">> ELSE stripped
         IN <<"'">> \o fam \o FallbackTail

(*************************** os.path ****************************************)
exists(files, path) == path \in DOMAIN files

RECURSIVE RStripSlash(_)
RStripSlash(s) ==
    IF s # <<>> /\ s[Len(s)] = "/" THEN RStripSlash(SubSeq(s, 1, Len(s) - 1)) ELSE s

dirname(path) ==
    IF "/" \notin Range(path) THEN <<>>
    ELSE LET i == CHOOSE k \in DOMAIN path :
                      path[k] = "/" /\ \A j \in (k + 1)..Len(path) : path[j] # "/"
             head == SubSeq(path, 1, i)
         IN IF Range(head) = {"/"} THEN head ELSE RStripSlash(head)

join(a, b) ==
    IF b # <<>> /\ Head(b) = "/" THEN b
    ELSE IF a = <<>> \/ a[Len(a)] = "/" THEN a \o b
    ELSE a \o <<"/">> \o b

\* str(n) of a non-negative integer
RECURSIVE Dec(_)
Dec(n) == IF n < 10 THEN <<Digits[n + 1]>>
          ELSE Dec(n \div 10) \o <<Digits[(n % 10) + 1]>>

(************************ collections.Counter *******************************)
\* a Counter is the sequence of its (key, count) items in insertion order
CounterAdd(cnt, key, n) ==
    IF \E k \in DOMAIN cnt : cnt[k][1] = key
      THEN [k \in DOMAIN cnt |->
               IF cnt[k][1] = key THEN <<key, cnt[k][2] + n>> ELSE cnt[k]]
      ELSE Append(cnt, <<key, n>>)

\* cnt.update(other): add the items of other in their order
RECURSIVE CounterUpdate(_, _)
CounterUpdate(cnt, other) ==
    IF other = <<>> THEN cnt
    ELSE CounterUpdate(CounterAdd(cnt, Head(other)[1], Head(other)[2]), Tail(other))

\* the first n items in insertion order
most_common_Unsorted(cnt, n) == Take(cnt, n)

\* cnt.most_common(n)
most_common(cnt, n) == Take(SortDescBy(cnt, 2), n)

(************************* _extract_from_pdf ********************************)
\* for char in page.chars: fname = char.get("fontname"); if fname: fonts[fname] += 1
RECURSIVE TallyChars(_, _)
TallyChars(fonts, chars) ==
    IF chars = <<>> THEN fonts
    ELSE TallyChars(IF Truthy(Head(chars)) THEN CounterAdd(fonts, Head(chars), 1)
                    ELSE fonts, Tail(chars))

\* the pdfplumber pass from page k on; a failing extract_text leaves the
\* outer try, a failing page.chars only the inner one
RECURSIVE PlumberPass(_, _, _, _)
PlumberPass(pages, k, hex_colors, fonts) ==
    IF k > Len(pages) THEN [hex |-> hex_colors, fonts |-> fonts]
    ELSE IF ~pages[k].textOk THEN [hex |-> hex_colors, fonts |-> fonts]
    ELSE PlumberPass(pages, k + 1,
             hex_colors \cup Range(extract_hex_colors_from_text(pages[k].text)),
             IF pages[k].charsOk THEN TallyChars(fonts, pages[k].chars) ELSE fonts)

Write(files, path, content) ==
    [q \in DOMAIN files \cup {path} |-> IF q = path THEN content ELSE files[q]]

\* if pix.n > 4: pix = fitz.Pixmap(fitz.csRGB, pix)
SavedPixmap(img) ==
    [kind |-> "raster", n |-> IF img.n > 4 THEN 3 ELSE img.n, hist |-> img.hist]

OutPath(path, page_index, img_index) ==
    join(join(IF Truthy(dirname(path)) THEN dirname(path) ELSE <<".">>, <<"_","e","x","t","r","a","c","t","e","d","_","l","o","g","o","s">>),
         safe_filename(<<"p","d","f","_","p">> \o Dec(page_index) \o <<"_","i","m","g">> \o Dec(img_index) \o <<".","p","n","g">>))

\* the PyMuPDF pass from image ii of page pi on (both 1-based here, 0-based
\* in the file names); get_images or Pixmap raising leaves the try
RECURSIVE FitzPass(_, _, _, _, _, _)
FitzPass(files, path, pages, pi, ii, image_paths) ==
    IF pi > Len(pages) THEN [files |-> files, images |-> image_paths]
    ELSE IF ~pages[pi].imagesOk THEN [files |-> files, images |-> image_paths]
    ELSE IF ii > Len(pages[pi].images)
      THEN FitzPass(files, path, pages, pi + 1, 1, image_paths)
    ELSE IF ~pages[pi].images[ii].ok THEN [files |-> files, images |-> image_paths]
    ELSE LET out_path == OutPath(path, pi - 1, ii - 1)
         IN FitzPass(Write(files, out_path, SavedPixmap(pages[pi].images[ii])),
                     path, pages, pi, ii + 1, Append(image_paths, out_path))

_extract_from_pdf(files, path) ==
    IF files[path].kind # "pdf"
      THEN [hex |-> <<>>, fonts |-> <<>>, images |-> <<>>, files |-> files]
    ELSE LET t == PlumberPass(files[path].pages, 1, {}, <<>>)
             g == FitzPass(files, path, files[path].pages, 1, 1, <<>>)
         IN [hex |-> sorted(t.hex), fonts |-> t.fonts,
             images |-> g.images, files |-> g.files]

(************************* _extract_from_docx *******************************)
RECURSIVE ScanAll(_)
ScanAll(texts) ==
    IF texts = <<>> THEN {}
    ELSE Range(extract_hex_colors_from_text(Head(texts))) \cup ScanAll(Tail(texts))

_extract_from_docx(files, path) ==
    IF files[path].kind # "docx" THEN <<>>
    ELSE sorted(ScanAll(files[path].paragraphs) \cup ScanAll(files[path].cells))

(********************** extract_brand_from_files ****************************)
IsPdf(path) == EndsWith(Lower(path), <<".","p","d","f">>)

IsDocx(path) == EndsWith(Lower(path), <<".","d","o","c","x">>)

IsImage(path) ==
    \E ext \in {<<".","p","n","g">>, <<".","j","p","g">>, <<".","j","p","e","g">>, <<".","w","e","b","p">>} : EndsWith(Lower(path), ext)

\* the skip test without os.path.exists
Skipped_NoExistsCheck(files, path) == ~Truthy(path)

\* if not path or not os.path.exists(path): continue
Skipped(files, path) == ~Truthy(path) \/ ~exists(files, path)

\* assignment in place of update
UpdateHex_Overwrite(all_hex, doc_hex) == Range(doc_hex)

\* all_hex_colors.update(doc_hex)
UpdateHex(all_hex, doc_hex) == all_hex \cup Range(doc_hex)

\* the handles the iteration on path (position at of the list) opens and does
\* not close: pdfplumber.open is a with-block and Document(path) reads the
\* file and lets go of it, but doc = fitz.open(path) has no close
LeftOpen(files, path, at) ==
    IF ~Skipped(files, path) /\ IsPdf(path) /\ files[path].kind = "pdf"
      THEN {[lib |-> "fitz", path |-> path, at |-> at]}
      ELSE {}

\* one iteration of the loop over file_paths; acc holds the accumulators
\* all_hex_colors, all_fonts, logo_candidates, image_candidates and the files
StepPath(acc, path) ==
    IF Skipped(acc.files, path) THEN acc
    ELSE IF IsPdf(path) THEN
        LET r == _extract_from_pdf(acc.files, path)
        IN [hex |-> UpdateHex(acc.hex, r.hex),
            fonts |-> CounterUpdate(acc.fonts, r.fonts),
            logos |-> acc.logos \o r.images,
            images |-> acc.images \o r.images,
            files |-> r.files]
    ELSE IF IsDocx(path) THEN
        [acc EXCEPT !.hex = UpdateHex(acc.hex, _extract_from_docx(acc.files, path))]
    ELSE IF IsImage(path) THEN
        [acc EXCEPT !.images = Append(acc.images, path)]
    ELSE acc

\* the two branches of the logo choice swapped
SelectLogoPath_ImageFirst(logo_candidates, image_candidates) ==
    IF image_candidates # <<>> THEN image_candidates[1]
    ELSE IF logo_candidates # <<>> THEN logo_candidates[1]
    ELSE None

\* "If we found logo candidates from PDFs, prefer the first"
SelectLogoPath(logo_candidates, image_candidates) ==
    IF logo_candidates # <<>> THEN logo_candidates[1]
    ELSE IF image_candidates # <<>> THEN image_candidates[1]
    ELSE None

\* the two tests of the dominant-colour step swapped
DominantBranch_FirstImage(logo_path, image_candidates) ==
    IF image_candidates # <<>> THEN "first_image"
    ELSE IF Truthy(logo_path) THEN "logo"
    ELSE "none"

\* the branch of "Dominant colors: use logo if present, else first image
\* candidate" that is taken
DominantBranch(logo_path, image_candidates) ==
    IF Truthy(logo_path) THEN "logo"
    ELSE IF image_candidates # <<>> THEN "first_image"
    ELSE "none"

\* the image_dominant_colors calls of that branch: the branch and its argument
Analysed(logo_path, image_candidates) ==
    LET branch == DominantBranch(logo_path, image_candidates)
    IN IF branch = "logo" THEN <<[branch |-> branch, path |-> logo_path]>>
       ELSE IF branch = "first_image"
         THEN <<[branch |-> branch, path |-> image_candidates[1]]>>
       ELSE <<>>

DominantOf(files, logo_path, image_candidates) ==
    LET calls == Analysed(logo_path, image_candidates)
    IN IF calls = <<>> THEN [raised |-> FALSE, colors |-> <<>>]
       ELSE image_dominant_colors(files, calls[1].path, TopN)

\* the operands of the "or" swapped
PaletteSource_TextFirst(dominant, hex_in_text) ==
    IF hex_in_text # <<>> THEN hex_in_text ELSE dominant

\* palette_source = dominant_colors or profile.hex_colors_in_text
PaletteSource(dominant, hex_in_text) ==
    IF dominant # <<>> THEN dominant ELSE hex_in_text

\* the roles palette_source does not reach defaulted to the neutral colour
AssignRolesOf_Defaulted(p, palette_source) ==
    [p EXCEPT !.primary_color =
                  IF Len(palette_source) > 0 THEN palette_source[1] ELSE p.neutral_color,
              !.secondary_color =
                  IF Len(palette_source) > 1 THEN palette_source[2] ELSE p.neutral_color,
              !.accent_color =
                  IF Len(palette_source) > 2 THEN palette_source[3] ELSE p.neutral_color]

AssignRolesOf(p, palette_source) ==
    [p EXCEPT !.primary_color =
                  IF Len(palette_source) > 0 THEN palette_source[1] ELSE @,
              !.secondary_color =
                  IF Len(palette_source) > 1 THEN palette_source[2] ELSE @,
              !.accent_color =
                  IF Len(palette_source) > 2 THEN palette_source[3] ELSE @]

\* the number of fonts kept in detected_fonts
TopFonts == 5

AssignFontsOf(p, fonts) ==
    IF fonts = <<>> THEN p
    ELSE LET common == most_common(fonts, TopFonts)
             detected == [k \in DOMAIN common |-> common[k][1]]
         IN [p EXCEPT !.detected_fonts = detected,
                      !.font_heading = _font_family_from_pdf_name(detected[1]),
                      !.font_body = _font_family_from_pdf_name(detected[1])]

EmptyAcc(files0) ==
    [hex |-> {}, fonts |-> <<>>, logos |-> <<>>, images |-> <<>>, files |-> files0]

RECURSIVE FoldPaths(_, _)
FoldPaths(acc, paths) ==
    IF paths = <<>> THEN acc ELSE FoldPaths(StepPath(acc, Head(paths)), Tail(paths))

\* the whole call: what it returns (or that it raised) and the files it leaves
extract_brand_from_files(paths, files0) ==
    LET acc == FoldPaths(EmptyAcc(files0), paths)
        logo == SelectLogoPath(acc.logos, acc.images)
        dom == DominantOf(acc.files, logo, acc.images)
        p1 == [BrandProfile EXCEPT !.logo_path = logo,
                                   !.detected_colors = dom.colors,
                                   !.hex_colors_in_text = sorted(acc.hex)]
        p2 == AssignRolesOf(p1, PaletteSource(dom.colors, p1.hex_colors_in_text))
        p3 == AssignFontsOf(p2, acc.fonts)
    IN [raised |-> dom.raised,
        profile |-> IF dom.raised THEN BrandProfile ELSE ensure_palette(p3),
        files |-> acc.files]

(****************************** renderers ***********************************)
\* matplotlib accepts "#rgb", "#rgba", "#rrggbb", "#rrggbbaa" among the strings
\* the palettes here hold; set_color raises ValueError on any other
MplValid(c) ==
    /\ Len(c) \in {4, 5, 7, 9}
    /\ c[1] = "#"
    /\ \A k \in 2..Len(c) : c[k] \in HexDigitChars

\* reportlab's colors.HexColor: int(val[1:], 16) after a leading "#",
\* int(val, 10) otherwise; raises ValueError when int() does
HexColorOk(c) ==
    IF c # <<>> /\ c[1] = "#"
      THEN Len(c) > 1 /\ \A k \in 2..Len(c) : c[k] \in HexDigitChars
      ELSE c # <<>> /\ \A k \in 1..Len(c) : c[k] \in Range(Digits)

\* colors.grey, the substitute of the palette row
Grey == <<"colors.grey">>

\* colors = profile.chart_palette or ["#2563EB"]; bar i gets colors[i % len(colors)]
BarColors(p, nbars) ==
    LET colors == IF p.chart_palette # <<>> THEN p.chart_palette ELSE << <<"#","2","5","6","3","E","B">> >>
    IN [i \in 1..nbars |-> colors[((i - 1) % Len(colors)) + 1]]

\* generate_bar_chart_svg / generate_bar_chart_png_base64 after ensure_palette
BarChart(kind, p, nbars) ==
    LET used == BarColors(p, nbars)
    IN [kind |-> kind,
        raised |-> \E k \in DOMAIN used : ~MplValid(used[k]),
        colors |-> used]

\* the palette row of generate_brand_book_pdf_data_url after ensure_palette
PaletteRow(p) ==
    [kind |-> "pdf", raised |-> FALSE,
     colors |-> [k \in DOMAIN p.chart_palette |->
                    IF HexColorOk(p.chart_palette[k]) THEN p.chart_palette[k] ELSE Grey]]

(************************* the files on disk ********************************)
F_Helvetica == <<"A","B","C","D","E","F","+","H","e","l","v","e","t","i","c","a","-","B","o","l","d">>
F_Arial == <<"A","r","i","a","l">>
F_Times == <<"T","i","m","e","s"," ","R","e","g","u","l","a","r">>
F_Bold == <<"B","o","l","d">>
F_Courier == <<"C","o","u","r","i","e","r">>
F_Dosis == <<"D","o","s","i","s">>
F_Verdana == <<"V","e","r","d","a","n","a">>

\* six colours; #111827 is also the default neutral colour
LogoA == [n |-> 3, ok |-> TRUE,
          hist |-> << <<10, <<37, 99, 235>> >>, <<30, <<255, 255, 255>> >>,
                      <<20, <<17, 24, 39>> >>, <<20, <<14, 165, 233>> >>,
                      <<5, <<1, 2, 3>> >>, <<7, <<200, 0, 0>> >> >>]

\* a CMYK-with-alpha image of three colours
LogoB == [n |-> 5, ok |-> TRUE,
          hist |-> << <<9, <<0, 0, 0>> >>, <<9, <<250, 250, 250>> >>,
                      <<1, <<9, 9, 9>> >> >>]

BrokenImage == [n |-> 3, ok |-> FALSE, hist |-> <<>>]

PdfA ==
    [kind |-> "pdf",
     pages |-> <<
       [textOk |-> TRUE, text |-> <<"B","r","a","n","d"," ","#","2","5","6","3","e","b",","," ","#","F","F","F",";"," ","#","1","2","3","4","5","6","7","8"," ","#","a","b","c","d">>,
        charsOk |-> TRUE,
        chars |-> <<F_Helvetica, F_Arial, F_Helvetica, F_Arial, F_Helvetica>>,
        imagesOk |-> TRUE, images |-> <<LogoA>>],
       [textOk |-> TRUE, text |-> None,
        charsOk |-> TRUE, chars |-> <<F_Times, None>>,
        imagesOk |-> TRUE, images |-> <<>>] >>]

PdfB ==
    [kind |-> "pdf",
     pages |-> <<
       [textOk |-> TRUE, text |-> <<"#","2","2","C","5","5","E">>,
        charsOk |-> TRUE,
        chars |-> <<F_Bold, F_Arial, F_Courier, F_Arial, F_Dosis, F_Verdana, F_Times>>,
        imagesOk |-> TRUE, images |-> <<LogoB, BrokenImage, LogoA>>] >>]

\* no images; page.chars fails on page 0, extract_text on page 1
PdfT ==
    [kind |-> "pdf",
     pages |-> <<
       [textOk |-> TRUE, text |-> <<"#","A","B","C"," ","#","E","1","1","D","4","8"," ","#","a","8","5","5","f","7">>,
        charsOk |-> FALSE, chars |-> <<F_Verdana>>,
        imagesOk |-> TRUE, images |-> <<>>],
       [textOk |-> FALSE, text |-> <<"#","D","D","D">>,
        charsOk |-> TRUE, chars |-> <<F_Verdana>>,
        imagesOk |-> FALSE, images |-> <<>>],
       [textOk |-> TRUE, text |-> <<"#","E","E","E">>,
        charsOk |-> TRUE, chars |-> <<F_Verdana>>,
        imagesOk |-> TRUE, images |-> <<LogoA>>] >>]

DocxG ==
    [kind |-> "docx",
     paragraphs |-> << <<"O","u","r"," ","b","r","a","n","d"," ","c","o","l","o","r"," ","i","s"," ","#","2","5","6","3","E","B"," ","a","n","d"," ","a","c","c","e","n","t"," ","#","0","E","A","5","E","9",".">> >>,
     cells |-> << <<"#","0","e","a","5","e","9">>, <<>> >>]

ImageL == [kind |-> "raster", n |-> 3,
           hist |-> << <<8, <<225, 29, 72>> >>, <<8, <<168, 85, 247>> >> >>]

\* bytes that no decoder accepts
Garbage == [kind |-> "garbage"]

EmptyPath == <<>>
MissingPng == <<"m",".","p","n","g">>
TxtPath == <<"n",".","t","x","t">>
APdf == <<"a",".","p","d","f">>
BPdf == <<"B",".","P","D","F">>
TPdf == <<"t",".","p","d","f">>
KPdf == <<"k",".","p","d","f">>
GDocx == <<"g",".","d","o","c","x">>
ZDocx == <<"z",".","D","o","c","x">>
LJpeg == <<"l",".","J","P","E","G">>
XWebp == <<"x",".","w","e","b","p">>

DiskEntries ==
    << <<TxtPath, Garbage>>, <<APdf, PdfA>>, <<BPdf, PdfB>>, <<TPdf, PdfT>>,
       <<KPdf, Garbage>>, <<GDocx, DocxG>>, <<ZDocx, Garbage>>,
       <<LJpeg, ImageL>>, <<XWebp, Garbage>> >>

InitialFiles ==
    [q \in {DiskEntries[k][1] : k \in DOMAIN DiskEntries} |->
        DiskEntries[CHOOSE k \in DOMAIN DiskEntries : DiskEntries[k][1] = q][2]]

\* the paths a caller may list: the files on disk, the empty path and a
\* path that does not exist
InputPaths == DOMAIN InitialFiles \cup {EmptyPath, MissingPng}

RECURSIVE SeqsUpTo(_, _)
SeqsUpTo(S, n) ==
    IF n = 0 THEN {<<>>}
    ELSE LET shorter == SeqsUpTo(S, n - 1)
         IN shorter \cup {Append(q, x) : q \in shorter, x \in S}

\* dicts a host passes to BrandProfile.from_dict
Invalid == <<"#","G","G","G","G","G","G">>

\* (the first leaves every field at its default)
DictSamples ==
    { [name |-> None],
      [chart_palette |-> << <<"#","2","5","6","3","E","B">>, <<"#","2","5","6","3","E","B">> >>],
      [chart_palette |-> << <<"#","0","0","0","0","0","1">>, <<"#","0","0","0","0","0","2">>, <<"#","0","0","0","0","0","3">>,
                            <<"#","0","0","0","0","0","4">>, <<"#","0","0","0","0","0","5">>, <<"#","0","0","0","0","0","6">>,
                            <<"#","0","0","0","0","0","7">>, <<"#","0","0","0","0","0","8">>, <<"#","0","0","0","0","0","9">> >>],
      [chart_palette |-> << Invalid, <<"#","F","F","F">> >>],
      [primary_color |-> <<"#","0","E","A","5","E","9">>, secondary_color |-> <<"#","0","E","A","5","E","9">>,
       accent_color |-> Invalid, neutral_color |-> <<>>],
      [primary_color |-> <<"#","A","A","0","0","0","0">>, secondary_color |-> <<"#","0","0","A","A","0","0">>,
       accent_color |-> <<"#","0","0","0","0","A","A">>] }

(***************************** the state ************************************)
VARIABLES
    files,             \* the filesystem: path -> content
    pc,                \* position of the host / of extract_brand_from_files
    origin,            \* how profile was built: "none", "extract", "dict"
    file_paths,        \* the argument of extract_brand_from_files
    idx,               \* 1-based position of the loop over file_paths
    all_hex_colors, all_fonts, logo_candidates, image_candidates,
    dominant_colors,
    profile,           \* the BrandProfile object
    renders,           \* renderer calls made on profile
    out,               \* what the last renderer produced
    handles,           \* document handles opened and not released yet
    analysed,          \* the calls of image_dominant_colors made so far
    input,             \* argument of a function applied on its own
    output             \* what that function returned

vars == <<files, pc, origin, file_paths, idx, all_hex_colors, all_fonts,
          logo_candidates, image_candidates, dominant_colors, profile,
          renders, out, handles, analysed, input, output>>

NoOutput == [kind |-> "none", raised |-> FALSE, colors |-> <<>>]

Init ==
    /\ files = InitialFiles
    /\ pc = "idle"
    /\ origin = "none"
    /\ file_paths = <<>>
    /\ idx = 1
    /\ all_hex_colors = {}
    /\ all_fonts = <<>>
    /\ logo_candidates = <<>>
    /\ image_candidates = <<>>
    /\ dominant_colors = <<>>
    /\ profile = BrandProfile
    /\ renders = 0
    /\ out = NoOutput
    /\ handles = {}
    /\ analysed = <<>>
    /\ input = <<>>
    /\ output = <<>>

\* extract_brand_from_files(paths) is entered: profile = BrandProfile()
Call ==
    /\ pc = "idle"
    /\ \E paths \in SeqsUpTo(InputPaths, MaxPaths) : file_paths' = paths
    /\ pc' = "loop"
    /\ origin' = "extract"
    /\ UNCHANGED <<handles, analysed, input, output>>
    /\ UNCHANGED <<files, idx, all_hex_colors, all_fonts, logo_candidates,
                   image_candidates, dominant_colors, profile, renders, out>>

\* one iteration of  for path in file_paths
ProcessPath ==
    /\ pc = "loop"
    /\ idx <= Len(file_paths)
    /\ LET acc == StepPath([hex |-> all_hex_colors, fonts |-> all_fonts,
                            logos |-> logo_candidates, images |-> image_candidates,
                            files |-> files], file_paths[idx])
       IN /\ all_hex_colors' = acc.hex
          /\ all_fonts' = acc.fonts
          /\ logo_candidates' = acc.logos
          /\ image_candidates' = acc.images
          /\ files' = acc.files
    /\ idx' = idx + 1
    /\ handles' = handles \cup LeftOpen(files, file_paths[idx], idx)
    /\ UNCHANGED <<analysed, input, output>>
    /\ UNCHANGED <<pc, origin, file_paths, dominant_colors, profile, renders, out>>

\* the loop is over: logo_path
SelectLogo ==
    /\ pc = "loop"
    /\ idx > Len(file_paths)
    /\ profile' = [profile EXCEPT
                      !.logo_path = SelectLogoPath(logo_candidates, image_candidates)]
    /\ pc' = "dominant"
    /\ UNCHANGED <<handles, analysed, input, output>>
    /\ UNCHANGED <<files, origin, file_paths, idx, all_hex_colors, all_fonts,
                   logo_candidates, image_candidates, dominant_colors, renders, out>>

\* dominant colours, detected_colors and hex_colors_in_text; an exception of
\* image_dominant_colors leaves extract_brand_from_files
DominantColors ==
    /\ pc = "dominant"
    /\ LET dom == DominantOf(files, profile.logo_path, image_candidates)
       IN IF dom.raised
            THEN /\ pc' = "raised"
                 /\ UNCHANGED <<dominant_colors, profile>>
            ELSE /\ pc' = "roles"
                 /\ dominant_colors' = dom.colors
                 /\ profile' = [profile EXCEPT
                                   !.detected_colors = dom.colors,
                                   !.hex_colors_in_text = sorted(all_hex_colors)]
    /\ analysed' = analysed \o Analysed(profile.logo_path, image_candidates)
    /\ UNCHANGED <<handles, input, output>>
    /\ UNCHANGED <<files, origin, file_paths, idx, all_hex_colors, all_fonts,
                   logo_candidates, image_candidates, renders, out>>

AssignRoles ==
    /\ pc = "roles"
    /\ profile' = AssignRolesOf(profile,
                      PaletteSource(dominant_colors, profile.hex_colors_in_text))
    /\ pc' = "fonts"
    /\ UNCHANGED <<handles, analysed, input, output>>
    /\ UNCHANGED <<files, origin, file_paths, idx, all_hex_colors, all_fonts,
                   logo_candidates, image_candidates, dominant_colors, renders, out>>

AssignFonts ==
    /\ pc = "fonts"
    /\ profile' = AssignFontsOf(profile, all_fonts)
    /\ pc' = "palette"
    /\ UNCHANGED <<handles, analysed, input, output>>
    /\ UNCHANGED <<files, origin, file_paths, idx, all_hex_colors, all_fonts,
                   logo_candidates, image_candidates, dominant_colors, renders, out>>

\* profile.ensure_palette(); return profile
Return ==
    /\ pc = "palette"
    /\ profile' = ensure_palette(profile)
    /\ pc' = "ready"
    /\ UNCHANGED <<handles, analysed, input, output>>
    /\ UNCHANGED <<files, origin, file_paths, idx, all_hex_colors, all_fonts,
                   logo_candidates, image_candidates, dominant_colors, renders, out>>

\* BrandProfile.from_dict(data)
FromDict ==
    /\ pc = "idle"
    /\ \E data \in DictSamples : profile' = from_dict(data)
    /\ pc' = "ready"
    /\ origin' = "dict"
    /\ UNCHANGED <<handles, analysed, input, output>>
    /\ UNCHANGED <<files, file_paths, idx, all_hex_colors, all_fonts,
                   logo_candidates, image_candidates, dominant_colors, renders, out>>

\* a renderer is called on profile: profile.ensure_palette() first, then
\* result, what it draws from the profile, is left in out
Render(result) ==
    /\ pc = "ready"
    /\ renders < MaxRenders
    /\ profile' = ensure_palette(profile)
    /\ out' = result
    /\ renders' = renders + 1
    /\ UNCHANGED <<handles, analysed, input, output>>
    /\ UNCHANGED <<files, pc, origin, file_paths, idx, all_hex_colors, all_fonts,
                   logo_candidates, image_candidates, dominant_colors>>

StyleGuide(p) == [kind |-> "style", raised |-> FALSE, colors |-> p.chart_palette]

Letterhead(p) == [kind |-> "letterhead", raised |-> FALSE, colors |-> <<>>]

generate_graph_style_guide == Render(StyleGuide(ensure_palette(profile)))

generate_letterhead_template == Render(Letterhead(ensure_palette(profile)))

generate_bar_chart_svg ==
    \E nbars \in 0..MaxBars : Render(BarChart("svg", ensure_palette(profile), nbars))

generate_bar_chart_png_base64 ==
    \E nbars \in 0..MaxBars : Render(BarChart("png", ensure_palette(profile), nbars))

generate_brand_book_pdf_data_url == Render(PaletteRow(ensure_palette(profile)))

\* the garbage collector finalises the documents nothing refers to any more
Finalize ==
    /\ handles # {}
    /\ handles' = {}
    /\ UNCHANGED <<files, pc, origin, file_paths, idx, all_hex_colors, all_fonts,
                   logo_candidates, image_candidates, dominant_colors, profile,
                   renders, out, analysed, input, output>>

Next ==
    \/ Call
    \/ ProcessPath
    \/ SelectLogo
    \/ DominantColors
    \/ AssignRoles
    \/ AssignFonts
    \/ Return
    \/ FromDict
    \/ generate_graph_style_guide
    \/ generate_letterhead_template
    \/ generate_bar_chart_svg
    \/ generate_bar_chart_png_base64
    \/ generate_brand_book_pdf_data_url
    \/ Finalize

Spec == Init /\ [][Next]_vars

(************** the functions of utils.py applied on their own **************)
\* every variable of extract_brand_from_files at its initial value
Untouched ==
    /\ files = InitialFiles
    /\ origin = "none"
    /\ file_paths = <<>>
    /\ idx = 1
    /\ all_hex_colors = {}
    /\ all_fonts = <<>>
    /\ logo_candidates = <<>>
    /\ image_candidates = <<>>
    /\ dominant_colors = <<>>
    /\ profile = BrandProfile
    /\ renders = 0
    /\ out = NoOutput
    /\ handles = {}
    /\ analysed = <<>>

Frame ==
    UNCHANGED <<files, origin, file_paths, idx, all_hex_colors, all_fonts,
                logo_candidates, image_candidates, dominant_colors, profile,
                renders, out, handles, analysed>>

\* the characters texts are written with: lower and upper case of one hex
\* letter, a digit, and "#", which also ends a run of hex digits
TextChars == {"#", "a", "A", "1"}

InitScan ==
    /\ Untouched
    /\ pc = "typing"
    /\ input = <<>>
    /\ output = <<>>

\* the caller's text grows by one character
Type ==
    /\ pc = "typing"
    /\ Len(input) < MaxTextLen
    /\ \E c \in TextChars : input' = Append(input, c)
    /\ UNCHANGED <<pc, output>>
    /\ Frame

\* extract_hex_colors_from_text(text)
Scan ==
    /\ pc = "typing"
    /\ output' = extract_hex_colors_from_text(input)
    /\ pc' = "scanned"
    /\ UNCHANGED input
    /\ Frame

\* extract_hex_colors_from_text(None)
ScanNone ==
    /\ pc = "typing"
    /\ input = <<>>
    /\ input' = None
    /\ output' = extract_hex_colors_from_text(None)
    /\ pc' = "scanned"
    /\ Frame

NextScan == Type \/ Scan \/ ScanNone

SpecScan == InitScan /\ [][NextScan]_vars

(********* _font_family_from_pdf_name applied on its own *******************)
\* what font identifiers are put together from: a subset tag, the "+", a
\* family, the two style words whole and in halves, a blank
NamePieces == { <<"A","A","A","A","A","A">>, <<"+">>, <<"H","e","l","v","e","t","i","c","a","-">>, <<"B","o","l","d">>, <<"R","e","g","u","l","a","r">>,
                <<"R","e","g">>, <<"u","l","a","r">>, <<" ">> }

InitName ==
    /\ Untouched
    /\ pc = "naming"
    /\ input = <<>>
    /\ output = <<>>

\* the identifier grows by one piece; renders counts the pieces
Extend ==
    /\ pc = "naming"
    /\ renders < MaxPieces
    /\ \E piece \in NamePieces : input' = input \o piece
    /\ renders' = renders + 1
    /\ UNCHANGED <<pc, output>>
    /\ UNCHANGED <<files, origin, file_paths, idx, all_hex_colors, all_fonts,
                   logo_candidates, image_candidates, dominant_colors, profile,
                   out, handles, analysed>>

\* _font_family_from_pdf_name(font_name)
Normalize ==
    /\ pc = "naming"
    /\ output' = _font_family_from_pdf_name(input)
    /\ pc' = "normalized"
    /\ UNCHANGED input
    /\ Frame

\* _font_family_from_pdf_name(None)
NormalizeNone ==
    /\ pc = "naming"
    /\ input = <<>>
    /\ input' = None
    /\ output' = _font_family_from_pdf_name(None)
    /\ pc' = "normalized"
    /\ Frame

NextName == Extend \/ Normalize \/ NormalizeNone

SpecName == InitName /\ [][NextName]_vars

(************** image_dominant_colors applied on its own ********************)
\* the colours the pixels of the resized image are drawn from
Rgbs == { <<0, 0, 0>>, <<255, 255, 255>>, <<10, 171, 9>>, <<37, 99, 235>> }

ImagePath == <<"i",".","p","n","g">>

InitImage ==
    /\ Untouched
    /\ pc = "painting"
    /\ input = <<>>
    /\ output = <<>>

\* one more entry of img.getcolors(): a colour not listed yet and its count
Paint ==
    /\ pc = "painting"
    /\ Len(input) < MaxColors
    /\ \E rgb \in Rgbs, count \in 1..MaxCount :
          /\ \A k \in DOMAIN input : input[k][2] # rgb
          /\ input' = Append(input, <<count, rgb>>)
    /\ UNCHANGED <<pc, output>>
    /\ Frame

\* image_dominant_colors(image_path, top_n) on the image painted so far
Analyse ==
    /\ pc = "painting"
    /\ input # <<>>
    /\ files' = Write(files, ImagePath, [kind |-> "raster", n |-> 3, hist |-> input])
    /\ \E top_n \in 0..MaxTopN :
          output' = [top_n |-> top_n,
                     colors |-> image_dominant_colors(files', ImagePath, top_n).colors]
    /\ pc' = "analysed"
    /\ UNCHANGED input
    /\ UNCHANGED <<origin, file_paths, idx, all_hex_colors, all_fonts,
                   logo_candidates, image_candidates, dominant_colors, profile,
                   renders, out, handles, analysed>>

NextImage == Paint \/ Analyse

SpecImage == InitImage /\ [][NextImage]_vars

(******************************* claims *************************************)
NoDuplicates(s) == \A i, j \in DOMAIN s : i # j => s[i] # s[j]

\* extract_brand_from_files has returned profile and no renderer touched it yet
Returned == pc = "ready" /\ origin = "extract"

\* C1: whatever way a profile was constructed, once ensure_palette has run
\* chart_palette has 1 to 8 entries and no duplicates
C1_PaletteBounded ==
    (pc = "ready" /\ (origin = "extract" \/ renders > 0)) =>
        /\ Len(profile.chart_palette) \in 1..PaletteCap
        /\ NoDuplicates(profile.chart_palette)

RolesUnset(p) ==
    p.primary_color = None /\ p.secondary_color = None /\ p.accent_color = None

EmptyInputSignals ==
    /\ profile.logo_path = None
    /\ profile.detected_colors = <<>>
    /\ profile.hex_colors_in_text = <<>>
    /\ RolesUnset(profile)

\* C2 (as stated): an empty list of paths gives no logo, no colours, no roles
\* and chart_palette equal to the 6-entry fallback sequence
C2_EmptyInputOnlyFallback ==
    (Returned /\ file_paths = <<>>) =>
        EmptyInputSignals /\ profile.chart_palette = fallback

\* C2 (amended): an empty list of paths gives no logo, no colours, no roles
\* and chart_palette equal to the default neutral colour followed by the
\* 6-entry fallback sequence, 7 entries
C2_EmptyInputNeutralThenFallback ==
    (Returned /\ file_paths = <<>>) =>
        EmptyInputSignals /\ profile.chart_palette = <<NeutralDefault>> \o fallback

C2_Witness == Returned /\ file_paths = <<>> /\ Len(profile.chart_palette) = 7

\* the candidates the embedded images of the file at path give
EmbeddedOf(path) ==
    IF Truthy(path) /\ path \in DOMAIN InitialFiles /\ EndsWith(Lower(path), <<".","p","d","f">>)
      THEN _extract_from_pdf(InitialFiles, path).images
      ELSE <<>>

Standalone(path) ==
    /\ Truthy(path)
    /\ path \in DOMAIN InitialFiles
    /\ \E ext \in {<<".","p","n","g">>, <<".","j","p","g">>, <<".","j","p","e","g">>, <<".","w","e","b","p">>} : EndsWith(Lower(path), ext)

PdfPositions == {k \in DOMAIN file_paths : EmbeddedOf(file_paths[k]) # <<>>}

ImagePositions == {k \in DOMAIN file_paths : Standalone(file_paths[k])}

Least(S) == CHOOSE k \in S : \A j \in S : k <= j

\* C3: the logo is the first embedded image of the first PDF of the list that
\* yields one, never a standalone image; without such a PDF it is the first
\* standalone image of the list; without either it stays unset
C3_LogoPrecedence ==
    (origin = "extract" /\ pc \in {"dominant", "roles", "fonts", "palette", "ready", "raised"}) =>
        IF PdfPositions # {}
          THEN /\ profile.logo_path = EmbeddedOf(file_paths[Least(PdfPositions)])[1]
               /\ \A k \in ImagePositions : profile.logo_path # file_paths[k]
        ELSE IF ImagePositions # {}
          THEN profile.logo_path = file_paths[Least(ImagePositions)]
        ELSE profile.logo_path = None

\* a standalone image listed before the PDF whose embedded image is chosen
C3_Witness ==
    /\ Returned
    /\ \E i, j \in DOMAIN file_paths : i < j /\ i \in ImagePositions /\ j \in PdfPositions
    /\ profile.logo_path \in Range(logo_candidates)

Ascending(s) == \A k \in 1..(Len(s) - 1) : StrLess(s[k], s[k + 1])

ElementOrNone(s, k) == IF k <= Len(s) THEN s[k] ELSE None

\* C4: the roles are elements 0, 1, 2 of detected_colors when that is not
\* empty and of the ascending hex_colors_in_text otherwise, absent elements
\* leaving the role unset; the DOCX naming #2563EB and #0EA5E9 gives
\* primary #0EA5E9, secondary #2563EB, accent unset
C4_RoleAssignment ==
    Returned =>
        LET source == IF profile.detected_colors # <<>>
                        THEN profile.detected_colors
                        ELSE profile.hex_colors_in_text
        IN /\ Ascending(profile.hex_colors_in_text)
           /\ profile.primary_color = ElementOrNone(source, 1)
           /\ profile.secondary_color = ElementOrNone(source, 2)
           /\ profile.accent_color = ElementOrNone(source, 3)
           /\ file_paths = <<GDocx>> =>
                /\ profile.hex_colors_in_text = << <<"#","0","E","A","5","E","9">>, <<"#","2","5","6","3","E","B">> >>
                /\ profile.primary_color = <<"#","0","E","A","5","E","9">>
                /\ profile.secondary_color = <<"#","2","5","6","3","E","B">>
                /\ profile.accent_color = None

C4_Witness ==
    /\ Returned
    /\ file_paths = <<GDocx>>
    /\ profile.detected_colors = <<>>
    /\ profile.secondary_color # None

\* C5: extract_brand_from_files never raises, whatever the files hold
C5_NeverRaises == pc # "raised"

\* C6: a renderer's ensure_palette leaves a profile with a non-empty
\* chart_palette unchanged in every field, and from the second renderer call
\* on chart_palette stays what the first call left
C6_EnsurePaletteIdempotent ==
    [][renders' = renders + 1 =>
          /\ profile.chart_palette # <<>> => profile' = profile
          /\ renders >= 1 => profile'.chart_palette = profile.chart_palette
          /\ ensure_palette(profile') = profile']_vars

\* two renderer calls on a profile built from a dict with its own palette
C6_Witness ==
    /\ renders >= 2
    /\ origin = "dict"
    /\ profile.chart_palette # <<>>
    /\ profile.chart_palette[1] \notin (Range(fallback) \cup {profile.primary_color})

SupportedExts == {<<".","p","d","f">>, <<".","d","o","c","x">>, <<".","p","n","g">>, <<".","j","p","g">>, <<".","j","p","e","g">>, <<".","w","e","b","p">>}

\* empty, not on disk, or no supported extension
SilentlySkipped(path) ==
    \/ path = <<>>
    \/ path \notin DOMAIN InitialFiles
    \/ ~\E ext \in SupportedExts : EndsWith(Lower(path), ext)

NotSilentlySkipped(path) == ~SilentlySkipped(path)

\* C7: the call ends as it ends for the list without the empty, missing and
\* unsupported paths: the same profile returned, and no exception that the
\* shorter list does not raise
C7_SkippedPathsAreSilent ==
    (origin = "extract" /\ pc \in {"ready", "raised"}) =>
        LET r == extract_brand_from_files(SelectSeq(file_paths, NotSilentlySkipped),
                                          InitialFiles)
        IN /\ r.raised <=> pc = "raised"
           /\ pc = "ready" => profile = r.profile

\* a missing image path listed before a PDF that was processed
C7_Witness ==
    /\ Returned
    /\ Len(file_paths) >= 2
    /\ file_paths[1] = MissingPng
    /\ ~SilentlySkipped(file_paths[2])
    /\ profile.logo_path # None

RECURSIVE Concat(_)
Concat(ss) == IF ss = <<>> THEN <<>> ELSE Head(ss) \o Concat(Tail(ss))

\* the pages of a PDF whose text the pdfplumber pass obtains
TextPages(pdf) ==
    {k \in DOMAIN pdf.pages : \A j \in 1..k : pdf.pages[j].textOk}

IsReadablePdf(path) ==
    /\ Truthy(path)
    /\ path \in DOMAIN InitialFiles
    /\ EndsWith(Lower(path), <<".","p","d","f">>)
    /\ InitialFiles[path].kind = "pdf"

IsReadableDocx(path) ==
    /\ Truthy(path)
    /\ path \in DOMAIN InitialFiles
    /\ EndsWith(Lower(path), <<".","d","o","c","x">>)
    /\ InitialFiles[path].kind = "docx"

\* the font identifiers of the glyphs of the file at path, in page order
GlyphFonts(path) ==
    IF ~IsReadablePdf(path) THEN <<>>
    ELSE LET pdf == InitialFiles[path]
         IN Concat([k \in DOMAIN pdf.pages |->
                       IF k \in TextPages(pdf) /\ pdf.pages[k].charsOk
                         THEN SelectSeq(pdf.pages[k].chars, Truthy)
                         ELSE <<>>])

\* every tallied glyph of the input, in input order
Tallied == Concat([k \in DOMAIN file_paths |-> GlyphFonts(file_paths[k])])

\* of each font of the glyph sequence t: its occurrences and first position
FontStats(t) ==
    [f \in Range(t) |->
        [occurrences |-> Cardinality({k \in DOMAIN t : t[k] = f}),
         first_seen |-> Least({k \in DOMAIN t : t[k] = f})]]

\* a ranks before b: more occurrences, or as many and seen first
RanksBefore(a, b) ==
    \/ a.occurrences > b.occurrences
    \/ a.occurrences = b.occurrences /\ a.first_seen < b.first_seen

\* C8: detected_fonts lists the at most 5 most frequent font identifiers over
\* all PDFs, most frequent first and ties in first-seen order, and both font
\* stacks are the normalised most frequent identifier; without any tallied
\* font detected_fonts is empty and both stacks are the default
C8_FontAssignment ==
    Returned =>
        LET d == profile.detected_fonts
            t == Tallied
            stats == FontStats(t)
        IN IF t = <<>>
             THEN /\ d = <<>>
                  /\ profile.font_heading = DefaultStack
                  /\ profile.font_body = DefaultStack
             ELSE /\ Len(d) = Min(5, Cardinality(Range(t)))
                  /\ Range(d) \subseteq Range(t)
                  /\ \A i, j \in DOMAIN d : i < j => RanksBefore(stats[d[i]], stats[d[j]])
                  /\ \A f \in Range(t) \ Range(d) :
                         \A i \in DOMAIN d : RanksBefore(stats[d[i]], stats[f])
                  /\ profile.font_heading = _font_family_from_pdf_name(d[1])
                  /\ profile.font_body = _font_family_from_pdf_name(d[1])

\* more than 5 fonts over two PDFs, a font of the second PDF ranked first
C8_Witness ==
    /\ Returned
    /\ Cardinality(Range(Tallied)) > 5
    /\ Len(profile.detected_fonts) = 5
    /\ Cardinality({k \in DOMAIN file_paths : GlyphFonts(file_paths[k]) # <<>>}) >= 2
    /\ FontStats(Tallied)[profile.detected_fonts[1]].first_seen > 1

Tokens(texts) ==
    UNION {Range(extract_hex_colors_from_text(texts[k])) : k \in DOMAIN texts}

\* the hex tokens of the texts obtained from the file at path
TokensIn(path) ==
    IF IsReadablePdf(path)
      THEN LET pdf == InitialFiles[path]
           IN UNION {Range(extract_hex_colors_from_text(pdf.pages[k].text)) :
                        k \in TextPages(pdf)}
    ELSE IF IsReadableDocx(path)
      THEN Tokens(InitialFiles[path].paragraphs) \cup Tokens(InitialFiles[path].cells)
    ELSE {}

Reorderings(s) ==
    {[k \in DOMAIN s |-> s[f[k]]] :
        f \in {g \in [DOMAIN s -> DOMAIN s] :
                  \A i, j \in DOMAIN s : i # j => g[i] # g[j]}}

HexOf(paths) == extract_brand_from_files(paths, InitialFiles)

\* C9: hex_colors_in_text is the ascending, duplicate-free sequence of the
\* tokens of all texts of the input, the same for every permutation of the
\* list and when a path of the list is listed once more
C9_HexColorsAreASortedUnion ==
    Returned =>
        LET hex == profile.hex_colors_in_text
        IN /\ Ascending(hex)
           /\ Range(hex) = UNION {TokensIn(file_paths[k]) : k \in DOMAIN file_paths}
           /\ \A q \in Reorderings(file_paths) :
                  ~HexOf(q).raised => HexOf(q).profile.hex_colors_in_text = hex
           /\ \A k \in DOMAIN file_paths :
                  LET r == HexOf(Append(file_paths, file_paths[k]))
                  IN ~r.raised => r.profile.hex_colors_in_text = hex

\* a PDF and a DOCX that both contribute, with a token they share
C9_Witness ==
    /\ Returned
    /\ \E i, j \in DOMAIN file_paths :
          /\ IsReadablePdf(file_paths[i]) /\ IsReadableDocx(file_paths[j])
          /\ TokensIn(file_paths[i]) \cap TokensIn(file_paths[j]) # {}
          /\ TokensIn(file_paths[i]) \ TokensIn(file_paths[j]) # {}
    /\ Len(profile.hex_colors_in_text) >= 3

\* C10: the renderers that turn palette entries into colours complete
\* without raising, an entry that is no colour being drawn in the fallback
\* colour
C10_InvalidColourSubstituted ==
    out.kind \in {"svg", "png", "pdf"} =>
        /\ ~out.raised
        /\ \A k \in DOMAIN out.colors :
               out.colors[k] \in Range(profile.chart_palette) \cup {Grey}

\* the PDF with the failures of the named passes taken away
Healed(pdf, text, chars, images) ==
    [pdf EXCEPT !.pages =
        [k \in DOMAIN pdf.pages |->
            [pdf.pages[k] EXCEPT !.textOk = @ \/ text,
                                 !.charsOk = @ \/ chars,
                                 !.imagesOk = @ \/ images]]]

\* what _extract_from_pdf gives for path were those passes free of failures
WithoutFailures(path, text, chars, images) ==
    _extract_from_pdf(Write(InitialFiles, path,
                            Healed(InitialFiles[path], text, chars, images)), path)

\* C11: after a PDF is processed each pass has given what it gives when the
\* other two passes do not fail: the hex colours regardless of font-tally and
\* image failures, the font counts regardless of text and image failures,
\* the image candidates regardless of text and font-tally failures
C11_PassesAreIsolated ==
    (origin = "extract" /\ pc = "loop" /\ idx = 2 /\ IsReadablePdf(file_paths[1])) =>
        /\ all_hex_colors =
               Range(WithoutFailures(file_paths[1], FALSE, TRUE, TRUE).hex)
        /\ all_fonts = WithoutFailures(file_paths[1], TRUE, FALSE, TRUE).fonts
        /\ logo_candidates = WithoutFailures(file_paths[1], TRUE, TRUE, FALSE).images

\* C12: with several PDFs in the input every recorded candidate path is its
\* own, and after the call the file at each candidate path holds the image
\* of the PDF that produced the candidate; so the file at logo_path holds the
\* first embedded image of the first PDF that yielded one
C12_ImagesPersistPerSource ==
    Returned =>
        /\ NoDuplicates(file_paths) => NoDuplicates(logo_candidates)
        /\ \A k \in PdfPositions :
               \A c \in Range(EmbeddedOf(file_paths[k])) :
                   files[c] = _extract_from_pdf(InitialFiles, file_paths[k]).files[c]

\* C13: no document handle is open when the loop turns to the next file nor
\* when extract_brand_from_files has returned, and handles of two different
\* input files are never open together
C13_HandlesReleased ==
    /\ (origin = "extract" /\ pc \in {"loop", "ready"}) => handles = {}
    /\ \A g, h \in handles : g.path = h.path

\* number of hex digits that follow position i of text
RECURSIVE DigitsAfter(_, _)
DigitsAfter(text, i) ==
    IF i < Len(text) /\ text[i + 1] \in HexDigitChars
      THEN 1 + DigitsAfter(text, i + 1)
      ELSE 0

\* the "#" of text followed by exactly 3 or exactly 6 hex digits and then by
\* the end of the text or a character that is no letter, digit or underscore
TokenStarts(text) ==
    {i \in DOMAIN text :
        /\ text[i] = "#"
        /\ DigitsAfter(text, i) \in {3, 6}
        /\ LET e == i + DigitsAfter(text, i)
           IN e = Len(text) \/ text[e + 1] \notin WordChars}

UpperHex == Range(Digits) \cup Range(SubSeq(Uppers, 1, 6))

IsColourToken(t) ==
    /\ Len(t) \in {4, 7}
    /\ t[1] = "#"
    /\ \A k \in 2..Len(t) : t[k] \in UpperHex

\* C14: the result of extract_hex_colors_from_text is ascending without
\* duplicates, made of "#" and 3 or 6 upper-case hex digits; its tokens are
\* those of the "#" followed by exactly 3 or 6 hex digits, upper-cased, so a
\* run of another length gives none and tokens differing in case give one;
\* an empty or None text gives the empty result
C14_ScannerOutput ==
    pc = "scanned" =>
        LET text == IF input = None THEN <<>> ELSE input
        IN /\ Ascending(output)
           /\ NoDuplicates(output)
           /\ \A k \in DOMAIN output : IsColourToken(output[k])
           /\ Range(output) =
                 {Upper(SubSeq(text, i, i + DigitsAfter(text, i))) : i \in TokenStarts(text)}
           /\ ~Truthy(input) => output = <<>>

\* two tokens, the first of the text not in upper case and sorted last
C14_Witness ==
    /\ pc = "scanned"
    /\ Len(output) = 2
    /\ Take(input, 4) # output[2]
    /\ Upper(Take(input, 4)) = output[2]

\* the positions of s where pat occurs
Occurrences(s, pat) ==
    {i \in 1..(Len(s) - Len(pat) + 1) : SubSeq(s, i, i + Len(pat) - 1) = pat}

\* the occurrences of pat in s that str.replace takes: from the left, none
\* overlapping one taken before
RECURSIVE TakenFrom(_, _, _)
TakenFrom(s, pat, i) ==
    LET later == {j \in Occurrences(s, pat) : j >= i}
    IN IF later = {} THEN {}
       ELSE LET first == CHOOSE j \in later : \A m \in later : j <= m
            IN {first} \cup TakenFrom(s, pat, first + Len(pat))

\* s with the characters of the taken occurrences of pat left out
Stripped(s, pat) ==
    LET taken == TakenFrom(s, pat, 1)
        covered(k) == \E i \in taken : i <= k /\ k < i + Len(pat)
        kept == {k \in DOMAIN s : ~covered(k)}
        rank(k) == Cardinality({j \in kept : j <= k})
    IN [n \in 1..Cardinality(kept) |-> s[CHOOSE k \in kept : rank(k) = n]]

\* s from its first to its last character that is no blank
Trimmed(s) ==
    LET solid == {k \in DOMAIN s : s[k] # " "}
    IN IF solid = {} THEN <<>>
       ELSE SubSeq(s, CHOOSE k \in solid : \A m \in solid : k <= m,
                      CHOOSE k \in solid : \A m \in solid : k >= m)

\* the part of s after its first "+", s itself without one
Suffix(s) ==
    LET plus == {k \in DOMAIN s : s[k] = "+"}
    IN IF plus = {} THEN s
       ELSE SubSeq(s, 1 + CHOOSE k \in plus : \A m \in plus : k <= m, Len(s))

Family(s) ==
    LET f == Trimmed(Stripped(Stripped(Suffix(s), <<"B","o","l","d">>), <<"R","e","g","u","l","a","r">>))
    IN IF f = <<>> THEN <<"I","n","t","e","r">> ELSE f

GenericStack == <<","," ","s","y","s","t","e","m","-","u","i",","," ","-","a","p","p","l","e","-","s","y","s","t","e","m",","," ","B","l","i","n","k","M","a","c","S","y","s","t","e","m","F","o","n","t",","," ","'","S","e","g","o","e"," ","U","I","'",","," ","s","a","n","s","-","s","e","r","i","f">>

\* C15: for a non-empty identifier _font_family_from_pdf_name gives the
\* family in single quotes followed by the fixed stack, the family being the
\* part after the first "+" with Bold and Regular taken out and blanks
\* trimmed, Inter when nothing is left, so AAAAAA+Helvetica-Bold gives
\* 'Helvetica-'; for an empty or None identifier it gives the default stack
C15_FontFamily ==
    pc = "normalized" =>
        /\ Truthy(input) => output = <<"'">> \o Family(input) \o <<"'">> \o GenericStack
        /\ ~Truthy(input) => output = <<"I","n","t","e","r">> \o GenericStack
        /\ input = <<"A","A","A","A","A","A","+","H","e","l","v","e","t","i","c","a","-","B","o","l","d">> =>
               output = <<"'","H","e","l","v","e","t","i","c","a","-","'",","," ","s","y","s","t","e","m","-","u","i",","," ","-","a","p","p","l","e","-","s","y","s","t","e","m",","," ","B","l","i","n","k","M","a","c","S","y","s","t","e","m","F","o","n","t",","," ","'","S","e","g","o","e"," ","U","I","'",","," ","s","a","n","s","-","s","e","r","i","f">>

\* an empty subset tag, a second "+" kept in the family, a style word, a blank
C15_Witness ==
    /\ pc = "normalized"
    /\ input = <<"+","+","B","o","l","d"," ">>
    /\ output = <<"'","+","'">> \o GenericStack

\* the value of a hex digit
HexValue(c) == (CHOOSE k \in DOMAIN HexChars : HexChars[k] = c) - 1

\* the colour a #RRGGBB string names
ParseHex(h) ==
    <<16 * HexValue(h[2]) + HexValue(h[3]),
      16 * HexValue(h[4]) + HexValue(h[5]),
      16 * HexValue(h[6]) + HexValue(h[7])>>

\* the pixels of colour rgb in the histogram hist
CountOf(hist, rgb) ==
    LET at == {k \in DOMAIN hist : hist[k][2] = rgb}
    IN IF at = {} THEN 0 ELSE hist[CHOOSE k \in at : TRUE][1]

\* C16: on a readable image image_dominant_colors(path, N) gives at most N
\* entries without duplicates, each the upper-case #RRGGBB of a colour of the
\* resized image, in non-increasing order of pixel count, and no colour left
\* out has more pixels than one that is given
C16_MostFrequentColours ==
    pc = "analysed" =>
        LET colors == output.colors
            given == {ParseHex(colors[k]) : k \in DOMAIN colors}
        IN /\ Len(colors) = Min(output.top_n, Len(input))
           /\ NoDuplicates(colors)
           /\ \A k \in DOMAIN colors :
                 /\ IsColourToken(colors[k]) /\ Len(colors[k]) = 7
                 /\ CountOf(input, ParseHex(colors[k])) > 0
           /\ \A k \in 1..(Len(colors) - 1) :
                 CountOf(input, ParseHex(colors[k])) >= CountOf(input, ParseHex(colors[k + 1]))
           /\ \A k \in DOMAIN input :
                 input[k][2] \notin given =>
                     \A rgb \in given : input[k][1] <= CountOf(input, rgb)

\* three colours, the most frequent listed last, and two of them asked for
C16_Witness ==
    /\ pc = "analysed"
    /\ Len(input) = 3
    /\ input[3][1] > input[1][1]
    /\ output.top_n = 2
    /\ output.colors[1] = rgb_to_hex(input[3][2])
    /\ input[3][2] = <<10, 171, 9>>

PastDominant ==
    origin = "extract" /\ pc \in {"roles", "fonts", "palette", "ready", "raised"}

\* C17: image_dominant_colors gives an empty sequence and does not raise when
\* its path does not exist or is not a readable image
C17_SoftFailure ==
    \A k \in DOMAIN analysed :
        (analysed[k].path \notin DOMAIN files \/ files[analysed[k].path].kind # "raster")
            => pc # "raised" /\ (PastDominant => profile.detected_colors = <<>>)

\* C18: image_dominant_colors is called at most once in a call, after the
\* loop over the files and the logo choice, on logo_path and by the logo
\* branch; once when there is an image candidate and not at all otherwise
C18_DominantRunsOnceOnLogo ==
    /\ Len(analysed) <= 1
    /\ analysed # <<>> =>
          /\ PastDominant
          /\ idx > Len(file_paths)
          /\ analysed[1].branch = "logo"
          /\ analysed[1].path = profile.logo_path
    /\ PastDominant => Len(analysed) = IF image_candidates # <<>> THEN 1 ELSE 0

\* several candidates, embedded and standalone, and one analysis
C18_Witness ==
    /\ Returned
    /\ Len(analysed) = 1
    /\ Len(image_candidates) >= 2
    /\ logo_candidates # <<>>
    /\ Len(image_candidates) > Len(logo_candidates)

RoleSeq(p) == <<p.primary_color, p.secondary_color, p.accent_color>>

AssignedRoles(p) == SelectSeq(RoleSeq(p), Truthy)

\* three roles which, with the neutral colour, are pairwise different and
\* different from the first n fallback colours
ThreeRolesApartFrom(n) ==
    LET four == AssignedRoles(profile) \o <<profile.neutral_color>>
    IN /\ Len(four) = 4
       /\ NoDuplicates(four)
       /\ Range(four) \cap Range(Take(fallback, n)) = {}

LastTwoFallback == {fallback[5], fallback[6]}

\* C19 (as stated): in a returned profile with three roles that, with the
\* neutral colour, differ from one another and from the first four fallback
\* colours, chart_palette holds neither #E11D48 nor #A855F7
C19_LastTwoFallbackAbsent ==
    (Returned /\ ThreeRolesApartFrom(4)) =>
        Range(profile.chart_palette) \cap LastTwoFallback = {}

\* C19 (amended): the chart_palette of a returned profile is the first 8
\* entries of the first-occurrence deduplication of the assigned roles, the
\* neutral colour and the 6 fallback colours; it starts with the assigned
\* roles, has 7 or 8 entries, and holds neither #E11D48 nor #A855F7 when
\* three roles and the neutral colour differ from one another and from all
\* six fallback colours
C19_PaletteFromRoles ==
    Returned =>
        LET roles == AssignedRoles(profile)
            palette == profile.chart_palette
        IN /\ palette = Take(Dedup(roles \o <<profile.neutral_color>> \o fallback), 8)
           /\ NoDuplicates(palette)
           /\ Take(palette, Len(roles)) = roles
           /\ Len(palette) \in {7, 8}
           /\ ThreeRolesApartFrom(6) =>
                  /\ Range(palette) \cap LastTwoFallback = {}
                  /\ palette = roles \o <<profile.neutral_color>> \o Take(fallback, 4)

\* three roles apart from every fallback colour, and a palette cut at 8
C19_Witness ==
    /\ Returned
    /\ ThreeRolesApartFrom(6)
    /\ Len(profile.chart_palette) = 8

\* C20: the roles of a returned profile are set from primary on without a
\* gap and pairwise different, and with 1 or 2 detected colours the roles
\* beyond them stay unset whatever hex_colors_in_text holds
C20_RolesPrefixClosedDistinct ==
    Returned =>
        LET roles == RoleSeq(profile)
            k == Len(profile.detected_colors)
        IN /\ \A i \in 2..3 : roles[i] # None => roles[i - 1] # None
           /\ \A i, j \in 1..3 : (i # j /\ roles[i] # None) => roles[i] # roles[j]
           /\ (1 <= k /\ k < 3) => \A i \in (k + 1)..3 : roles[i] = None

\* two image colours, text colours as well, and no accent
C20_Witness ==
    /\ Returned
    /\ Len(profile.detected_colors) = 2
    /\ profile.hex_colors_in_text # <<>>
    /\ profile.secondary_color # None
    /\ profile.accent_color = None

=============================================================================
